---- MODULE Spec2Model ----
(***************************************************************************)
(* The event-stream subsystem of binance.py (binance/web_sockets.py):      *)
(* EventsDataStream._handle_messages, MarketEventsDataStream and           *)
(* UserEventsDataStream, run on one asyncio event loop.                    *)
(*                                                                         *)
(* asyncio runs one coroutine at a time and switches only at an `await`,   *)
(* so one action is the code a task runs from one await to the next.       *)
(* Times are wall-clock milliseconds (datetime.now()).                     *)
(***************************************************************************)
EXTENDS Integers, Sequences, FiniteSets, TLC

\* ---------------------------------------------------------------- bounds
\* start() invocations made by the caller over one behaviour
MaxStarts == 2
\* frames received over one behaviour, all transports together
MaxFrames == 2
\* longest batched payload (`data` a list of that many documents)
MaxBatch == 2
\* distinct event documents {"a": 1} .. {"a": MaxId} a payload is built from
MaxId == 3

VARIABLES
    kind,           \* "market": MarketEventsDataStream, "session": UserEventsDataStream
    topics,         \* len(client.events.registered_streams)
    proxy,          \* client.proxy (NoProxy, or the proxy's URL)
    tasks,          \* the coroutines handed to the event loop, in creation order
    socks,          \* the transports ws_connect has returned, in creation order
    received,       \* per transport: the frames receive() has returned, in order
    sink,           \* the documents handed to wrap_event(...).fire(), in call order
    web_socket,     \* self.web_socket (Unset until an assignment ran)
    last_msg_time,  \* self.last_msg_time (Unset until an assignment ran)
    lastCall        \* the last call the caller made on the stream, and how it ended

vars == <<kind, topics, proxy, tasks, socks, received, sink, web_socket, last_msg_time, lastCall>>

\* an instance attribute that is only annotated on the class and never assigned
Unset == -1

\* ------------------------------------------------------------ JSON values
Null == [ty |-> "null"]
Dict(f) == [ty |-> "dict", kv |-> f]
List(s) == [ty |-> "list", items |-> s]

\* the document {"a": i}
Ev(i) == Dict([a |-> i])
\* the list [{"a": 1}, ..., {"a": k}]
Batch(k) == List([i \in 1..k |-> Ev(i)])
\* the wrapper {"stream": name, "data": data}
Wrapped(name, data) == Dict([stream |-> name, data |-> data])

\* `key in content`
Contains(content, key) == content.ty = "dict" /\ key \in DOMAIN content.kv

\* `d[key] = value` on a dict
SetItem(d, key, value) ==
    Dict([k \in DOMAIN d.kv \cup {key} |-> IF k = key THEN value ELSE d.kv[k]])

\* ------------------------------------------------------------ the wire
\* msg.data: a str holding a JSON text (well formed or not), or what aiohttp
\* puts there for the frames that carry no text
Text(v) == [py |-> "str", ok |-> TRUE, json |-> v]
BadText == [py |-> "str", ok |-> FALSE, json |-> Null]
NoText(pytype) == [py |-> pytype, ok |-> FALSE, json |-> Null]

Frame(type, data) == [type |-> type, data |-> data]

\* the payloads the server sends in the life-cycle model: one routable
\* document, one batch, one document with no `stream` key
Payloads ==
    {Wrapped("X", Ev(1)), Wrapped("X", Batch(MaxBatch)), Ev(1)}

Frames ==
    {Frame("TEXT", Text(v)) : v \in Payloads}
        \cup {Frame("TEXT", BadText),
              Frame("CLOSED", NoText("NoneType")),
              Frame("CLOSE", NoText("int")),
              Frame("ERROR", NoText("Exception"))}

\* json.loads(data)
JsonLoads(data) ==
    IF data.py # "str" THEN [exc |-> "TypeError", val |-> Null]
    ELSE IF ~data.ok THEN [exc |-> "JSONDecodeError", val |-> Null]
    ELSE [exc |-> "none", val |-> data.json]

\* ------------------------------------------------------ _handle_event
\* what one _handle_event call did: the documents it fired, in call order, and
\* the exception that ended it ("none" when it returned)
Handled(exc, fired) == [exc |-> exc, fired |-> fired]

\* the batch walked from its last element to its first
TagEachReversed(items, stream_name) ==
    [i \in 1..Len(items) |-> SetItem(items[Len(items) + 1 - i], "stream", stream_name)]

\* for event_content in content: event_content["stream"] = stream_name; fire
TagEach(items, stream_name) ==
    [i \in 1..Len(items) |-> SetItem(items[i], "stream", stream_name)]

\* the elements of a batch fired without the topic label
MarketHandleEventUntagged(content) ==
    IF Contains(content, "stream")
    THEN IF ~Contains(content, "data")
         THEN Handled("KeyError", <<>>)
         ELSE LET stream_name == content.kv["stream"]
                  data == content.kv["data"]
              IN  IF data.ty = "list"
                  THEN Handled("none", data.items)
                  ELSE Handled("none", <<SetItem(data, "stream", stream_name)>>)
    ELSE Handled("none", <<>>)

\* content["stream"] read without the `"stream" in content` test
MarketHandleEventUnguarded(content) ==
    IF ~Contains(content, "stream") \/ ~Contains(content, "data")
    THEN Handled("KeyError", <<>>)
    ELSE LET stream_name == content.kv["stream"]
             data == content.kv["data"]
         IN  IF data.ty = "list"
             THEN Handled("none", TagEach(data.items, stream_name))
             ELSE Handled("none", <<SetItem(data, "stream", stream_name)>>)

\* MarketEventsDataStream._handle_event
MarketHandleEvent(content) ==
    IF Contains(content, "stream")
    THEN IF ~Contains(content, "data")
         THEN Handled("KeyError", <<>>)
         ELSE LET stream_name == content.kv["stream"]
                  data == content.kv["data"]
              IN  IF data.ty = "list"
                  THEN Handled("none", TagEach(data.items, stream_name))
                  ELSE Handled("none", <<SetItem(data, "stream", stream_name)>>)
    ELSE Handled("none", <<>>)

\* UserEventsDataStream._handle_event
UserHandleEvent(content) == Handled("none", <<content>>)

HandleEvent(k, content) ==
    IF k = "market" THEN MarketHandleEvent(content) ELSE UserHandleEvent(content)

\* wrap_event(doc).fire() for each document of `fired`, in order; an entry keeps
\* the transport and the number of the frame it came from
FireAll(log, ws, n, fired) ==
    log \o [i \in 1..Len(fired) |-> [ws |-> ws, n |-> n, doc |-> fired[i]]]

\* ------------------------------------------------------------- the clock
\* datetime.now() is the wall clock: a read returns whatever the clock shows,
\* and the clock can be set forward or back between two reads
Times == {0, 2500, 86401000}

\* timedelta.seconds of a difference of `ms` milliseconds: the seconds field of
\* the normalised (days, seconds, microseconds), 0 <= seconds < 86400
DeltaSeconds(ms) == (ms % 86400000) \div 1000

\* ------------------------------------------------------------- the tasks
\* a coroutine handed to the event loop. pc is the await it is suspended at,
\* "raised" once an exception left it (exc, and the call that raised: where)
Task(k, origin, pc, key) ==
    [kind |-> k, origin |-> origin, pc |-> pc, ws |-> 0, key |-> key,
     exc |-> "none", where |-> "none"]

Raise(task, exc, where) == [task EXCEPT !.pc = "raised", !.exc = exc, !.where = where]

StartTasks == {t \in DOMAIN tasks : tasks[t].kind = "start"}

\* start() up to its first await
NewStart(origin) ==
    Task("start", origin, IF kind = "market" THEN "ws_connect" ELSE "create_listen_key", 0)

\* what connect() hands back: its body is the expression statement
\* `self.start()`, which builds a coroutine object and drops it, so the call
\* returns None and nothing is scheduled
ConnectReturn == "None"

\* asyncio.ensure_future(arg): TypeError unless arg is a future, a coroutine or
\* an awaitable
EnsureFuture(arg) == IF arg = "coroutine" THEN "none" ELSE "TypeError"

\* client.proxy when no proxy is configured
NoProxy == "None"
Proxies == {NoProxy, "http://proxy:3128"}

\* what start() hands to session.ws_connect: the URL after the endpoint, and
\* the proxy keyword (NoProxy when the keyword is left out, or is None).
\* MarketEventsDataStream.start passes the proxy when one is configured;
\* UserEventsDataStream.start leaves it out when one is configured and passes
\* client.proxy, which is None, when none is.
OpenArgs(k, listen_key) ==
    IF k = "market"
    THEN [path |-> "/stream?streams=", arg |-> topics,
          proxy |-> IF proxy # NoProxy THEN proxy ELSE NoProxy]
    ELSE [path |-> "/ws/", arg |-> listen_key,
          proxy |-> IF proxy # NoProxy THEN NoProxy ELSE proxy]

\* the transport ws_connect returns: closed is ClientWebSocketResponse.closed,
\* live says whether the connection under it is still up, reopened whether it
\* was opened after every earlier transport of the stream had gone down, args
\* what it was opened with
Sock(reopened, args) ==
    [closed |-> FALSE, live |-> TRUE, reopened |-> reopened, args |-> args]

RECURSIVE CountFrames(_)
CountFrames(rs) == IF rs = <<>> THEN 0 ELSE Len(Head(rs)) + CountFrames(Tail(rs))
FramesSeen == CountFrames(received)

\* the stream holds a transport whose connection is up
ActiveTransport == web_socket # Unset /\ socks[web_socket].live

Called(op, exc, ret, elapsed) ==
    [op |-> op, exc |-> exc, ret |-> ret, active |-> ActiveTransport, elapsed |-> elapsed]

InitStream ==
    /\ kind \in {"market", "session"}
    /\ topics \in (IF kind = "market" THEN {0, 1} ELSE {0})
    /\ tasks = <<>>
    /\ socks = <<>>
    /\ received = <<>>
    /\ sink = <<>>
    /\ web_socket = Unset
    /\ last_msg_time = Unset
    /\ lastCall = [op |-> "none", exc |-> "none", ret |-> "None",
                   active |-> FALSE, elapsed |-> 0]

\* a client with no proxy configured
Init == InitStream /\ proxy = NoProxy

\* a client with or without a proxy
InitProxy == InitStream /\ proxy \in Proxies

\* ------------------------------------------------------------ start()
\* the caller runs start() (awaits it, or hands it to the event loop)
CallStart ==
    /\ Cardinality(StartTasks) < MaxStarts
    /\ tasks' = Append(tasks, NewStart("caller"))
    /\ UNCHANGED <<kind, topics, proxy, socks, received, sink, web_socket, last_msg_time, lastCall>>

\* the listen keys handed out so far
KeysIssued == {tasks[t].key : t \in DOMAIN tasks} \ {0}

\* UserEventsDataStream.start: (await self.client.create_listen_key())["listenKey"]
CreateListenKey(t) ==
    /\ tasks[t].kind = "start" /\ tasks[t].pc = "create_listen_key"
    /\ tasks' = [tasks EXCEPT ![t] = [@ EXCEPT !.pc = "ws_connect",
                                               !.key = Cardinality(KeysIssued) + 1]]
    /\ UNCHANGED <<kind, topics, proxy, socks, received, sink, web_socket, last_msg_time, lastCall>>

\* create_listen_key raises, and start() is put on the event loop once more
CreateListenKeyFailsRetried(t) ==
    /\ tasks[t].kind = "start" /\ tasks[t].pc = "create_listen_key"
    /\ tasks' = Append([tasks EXCEPT ![t] = Raise(@, "BinanceError", "create_listen_key")],
                       NewStart("retry"))
    /\ UNCHANGED <<kind, topics, proxy, socks, received, sink, web_socket, last_msg_time, lastCall>>

\* create_listen_key raises: nothing in start() catches it, the exception
\* leaves start() at line 124
CreateListenKeyFails(t) ==
    /\ tasks[t].kind = "start" /\ tasks[t].pc = "create_listen_key"
    /\ tasks' = [tasks EXCEPT ![t] = Raise(@, "BinanceError", "create_listen_key")]
    /\ UNCHANGED <<kind, topics, proxy, socks, received, sink, web_socket, last_msg_time, lastCall>>

\* session.ws_connect(...) returns: self.web_socket is assigned, the session
\* stream hands _heartbeat(listen_key) to the event loop, and _handle_messages
\* runs up to its first receive()
WsConnect(t) ==
    /\ tasks[t].kind = "start" /\ tasks[t].pc = "ws_connect"
    /\ LET ws == Len(socks) + 1
           running == [tasks EXCEPT ![t] = [@ EXCEPT !.pc = "receive", !.ws = ws]]
           reopened == socks # <<>> /\ \A s \in DOMAIN socks : ~socks[s].live
       IN  /\ socks' = Append(socks, Sock(reopened, OpenArgs(kind, tasks[t].key)))
           /\ received' = Append(received, <<>>)
           /\ web_socket' = ws
           /\ tasks' = IF kind = "session"
                       THEN Append(running, Task("heartbeat", "start", "sleep", tasks[t].key))
                       ELSE running
    /\ UNCHANGED <<kind, topics, proxy, sink, last_msg_time, lastCall>>

\* session.ws_connect(...) raises: the exception leaves start()
WsConnectFails(t) ==
    /\ tasks[t].kind = "start" /\ tasks[t].pc = "ws_connect"
    /\ tasks' = [tasks EXCEPT ![t] = Raise(@, "ClientConnectorError", "ws_connect")]
    /\ UNCHANGED <<kind, topics, proxy, socks, received, sink, web_socket, last_msg_time, lastCall>>

\* ----------------------------------------------------- _handle_messages
\* one turn of the loop: receive() returns `frame`, the clock is read, a
\* closed/close/error frame has connect() called and its result handed to
\* ensure_future, the body is decoded and _handle_event runs; all of it with
\* no await, up to the next receive(). An exception leaves the loop and
\* start(), whose `async with` closes the client session and the connection.
HandleMessage(t, frame, now) ==
    /\ tasks[t].kind = "start" /\ tasks[t].pc = "receive"
    /\ FramesSeen < MaxFrames
    /\ LET ws == tasks[t].ws
           n == Len(received[ws]) + 1
           closing == frame.type \in {"CLOSED", "CLOSE", "ERROR"}
           scheduled == IF closing THEN EnsureFuture(ConnectReturn) ELSE "none"
           decoded == JsonLoads(frame.data)
           reached == scheduled = "none" /\ decoded.exc = "none"
           handled == IF reached THEN HandleEvent(kind, decoded.val) ELSE Handled("none", <<>>)
           exc == IF scheduled # "none" THEN scheduled
                  ELSE IF decoded.exc # "none" THEN decoded.exc ELSE handled.exc
           where == IF scheduled # "none" THEN "ensure_future"
                    ELSE IF decoded.exc # "none" THEN "json.loads" ELSE "_handle_event"
           after == [tasks EXCEPT ![t] = IF exc = "none" THEN @ ELSE Raise(@, exc, where)]
       IN  /\ received' = [received EXCEPT ![ws] = Append(@, frame)]
           /\ last_msg_time' = now
           /\ sink' = FireAll(sink, ws, n, handled.fired)
           /\ tasks' = IF closing /\ scheduled = "none"
                       THEN Append(after, NewStart("connect"))
                       ELSE after
           /\ socks' = [socks EXCEPT ![ws] = [@ EXCEPT !.closed = @ \/ closing,
                                                       !.live = @ /\ ~closing /\ exc = "none"]]
    /\ UNCHANGED <<kind, topics, proxy, web_socket, lastCall>>

\* ----------------------------------------------------------- _heartbeat
\* await asyncio.sleep(interval) returns
HeartbeatWake(t) ==
    /\ tasks[t].kind = "heartbeat" /\ tasks[t].pc = "sleep"
    /\ tasks' = [tasks EXCEPT ![t] = [@ EXCEPT !.pc = "keep_alive"]]
    /\ UNCHANGED <<kind, topics, proxy, socks, received, sink, web_socket, last_msg_time, lastCall>>

\* how a call of client.keep_alive_listen_key ends: it returns, or the request
\* fails and it raises
RenewOutcomes == {"none", "BinanceError"}

\* await self.client.keep_alive_listen_key(listen_key) ends; nothing in
\* _heartbeat catches what it raises
KeepAlive(t, outcome) ==
    /\ tasks[t].kind = "heartbeat" /\ tasks[t].pc = "keep_alive"
    /\ tasks' = [tasks EXCEPT ![t] = IF outcome = "none"
                                     THEN [@ EXCEPT !.pc = "sleep"]
                                     ELSE Raise(@, outcome, "keep_alive_listen_key")]
    /\ UNCHANGED <<kind, topics, proxy, socks, received, sink, web_socket, last_msg_time, lastCall>>

\* ------------------------------------------------- the caller's calls
\* connect(): see ConnectReturn; no task, no transport, no attribute changes
CallConnect ==
    /\ lastCall' = Called("connect", "none", ConnectReturn, 0)
    /\ UNCHANGED <<kind, topics, proxy, tasks, socks, received, sink, web_socket, last_msg_time>>

\* MarketEventsDataStream.close: `self.web_socket.close()` looks the attribute
\* up (AttributeError while it was never assigned) and builds the coroutine of
\* ClientWebSocketResponse.close() without awaiting it.
\* UserEventsDataStream defines no close().
CallClose ==
    /\ lastCall' = IF kind = "market" /\ web_socket # Unset
                   THEN Called("close", "none", "None", 0)
                   ELSE Called("close", "AttributeError", "None", 0)
    /\ UNCHANGED <<kind, topics, proxy, tasks, socks, received, sink, web_socket, last_msg_time>>

\* MarketEventsDataStream.connected, the clock read giving `now`
MarketConnected(now) ==
    IF topics # 0
    THEN IF last_msg_time = Unset
         THEN Called("connected", "AttributeError", "None", 0)
         ELSE LET delta == now - last_msg_time
              IN  IF DeltaSeconds(delta) > 2
                  THEN Called("connected", "none", "False", delta)
                  ELSE Called("connected", "none", "True", delta)
    ELSE Called("connected", "none", "True", 0)

\* UserEventsDataStream.connected
UserConnected ==
    IF web_socket = Unset
    THEN Called("connected", "AttributeError", "None", 0)
    ELSE Called("connected", "none", IF socks[web_socket].closed THEN "False" ELSE "True", 0)

CallConnected(now) ==
    /\ lastCall' = IF kind = "market" THEN MarketConnected(now) ELSE UserConnected
    /\ UNCHANGED <<kind, topics, proxy, tasks, socks, received, sink, web_socket, last_msg_time>>

\* ------------------------------------------------------------ the system
Next ==
    \/ CallStart
    \/ \E t \in DOMAIN tasks : CreateListenKey(t)
    \/ \E t \in DOMAIN tasks : CreateListenKeyFails(t)
    \/ \E t \in DOMAIN tasks : WsConnect(t)
    \/ \E t \in DOMAIN tasks : WsConnectFails(t)
    \/ \E t \in DOMAIN tasks, frame \in Frames, now \in Times : HandleMessage(t, frame, now)
    \/ \E t \in DOMAIN tasks : HeartbeatWake(t)
    \/ \E t \in DOMAIN tasks, outcome \in RenewOutcomes : KeepAlive(t, outcome)
    \/ CallConnect
    \/ CallClose
    \/ \E now \in Times : CallConnected(now)

Spec == Init /\ [][Next]_vars

\* the receive loops alone: the epochs the caller's start() calls open and the
\* frames their loops handle. Left out are the steps that touch neither a loop
\* nor the sink: the keepalive's, and the caller's connect(), close() and
\* connected(), which change nothing in the stream.
NextLoop ==
    \/ CallStart
    \/ \E t \in DOMAIN tasks : CreateListenKey(t)
    \/ \E t \in DOMAIN tasks : CreateListenKeyFails(t)
    \/ \E t \in DOMAIN tasks : WsConnect(t)
    \/ \E t \in DOMAIN tasks : WsConnectFails(t)
    \/ \E t \in DOMAIN tasks, frame \in Frames, now \in Times : HandleMessage(t, frame, now)

SpecLoop == Init /\ [][NextLoop]_vars

\* the same, for a client with or without a proxy
SpecProxy == InitProxy /\ [][NextLoop]_vars

\* ------------------------------------- _handle_event applied on its own
\* the documents a payload is built from: with and without a `stream` key of
\* their own
Docs == {Ev(i) : i \in 1..MaxId} \cup {Dict([a |-> i, stream |-> "Z"]) : i \in 1..MaxId}
DocLists == UNION {[1..k -> Docs] : k \in 0..MaxBatch}

\* decoded frames handed to MarketEventsDataStream._handle_event: wrappers
\* around a document or a list, wrappers with no `data`, documents with no
\* `stream`
EventInputs ==
    {Wrapped(name, d) : name \in {"X", "Y"}, d \in Docs}
        \cup {Wrapped(name, List(l)) : name \in {"X", "Y"}, l \in DocLists}
        \cup {Dict([stream |-> name]) : name \in {"X", "Y"}}
        \cup {Ev(i) : i \in 1..MaxId}
        \cup {Dict([data |-> Ev(1)])}

InitEvent ==
    /\ Init
    /\ kind = "market"

\* stream._handle_event(content) called on a stream that holds one transport:
\* the frame and what was fired for it replace the previous call's
ApplyHandleEvent(content) ==
    LET handled == MarketHandleEvent(content)
    IN  /\ socks' = <<Sock(FALSE, OpenArgs(kind, 0))>>
        /\ received' = <<(<<Frame("TEXT", Text(content))>>)>>
        /\ sink' = FireAll(<<>>, 1, 1, handled.fired)
        /\ lastCall' = Called("_handle_event", handled.exc, "None", 0)
        /\ UNCHANGED <<kind, topics, proxy, tasks, web_socket, last_msg_time>>

NextEvent == \E content \in EventInputs : ApplyHandleEvent(content)

SpecEvent == InitEvent /\ [][NextEvent]_vars

\* ================================================================ claims
IsText(frame) == frame.type = "TEXT" /\ frame.data.ok
IsClosing(frame) == frame.type \in {"CLOSED", "CLOSE", "ERROR"}

\* C1: once the caller's connect() has returned, a start() scheduled by that
\* connect() exists (it opens the transport and runs the receive loop).
C1_ConnectOpensEpoch ==
    lastCall.op = "connect" =>
        \E t \in StartTasks : tasks[t].origin = "connect"

\* the closed/close/error frames the receive loops have received
ClosingSeen ==
    {<<s, n>> \in (DOMAIN received) \X (1..FramesSeen) :
        n <= Len(received[s]) /\ IsClosing(received[s][n])}

\* C2: for every closed/close/error frame a receive loop has received, a new
\* connect() was scheduled: there is a start() that the loop's connect() put
\* on the event loop.
C2_ClosingFrameSchedulesConnect ==
    Cardinality({t \in StartTasks : tasks[t].origin = "connect"}) >= Cardinality(ClosingSeen)

\* C6: with a topic registered, connected() is False exactly when more than
\* 2 seconds have passed since the last frame; with none it is True.
C6_ConnectedWithinTwoSeconds ==
    (/\ lastCall.op = "connected"
     /\ kind = "market"
     /\ lastCall.exc = "none"
     /\ lastCall.elapsed >= 0)
        => IF topics = 0
           THEN lastCall.ret = "True"
           ELSE lastCall.ret = (IF lastCall.elapsed > 2000 THEN "False" ELSE "True")

\* C7: a keepalive task is never ended by a renewal: after a renewal that
\* failed it is still asleep until its next interval, or renewing.
C7_KeepaliveSurvivesFailure ==
    \A t \in DOMAIN tasks :
        tasks[t].kind = "heartbeat" => tasks[t].pc \in {"sleep", "keep_alive"}

\* the stream's newest transport was opened after every earlier one had gone
\* down, and is up
Reconnected ==
    /\ socks # <<>>
    /\ socks[Len(socks)].reopened
    /\ socks[Len(socks)].live

ReceiveLoops == {t \in StartTasks : tasks[t].pc = "receive"}
Keepalives == {t \in DOMAIN tasks : tasks[t].kind = "heartbeat" /\ tasks[t].pc # "raised"}

\* C8: after a reconnect a session stream has exactly one receive loop and at
\* most one keepalive task.
C8_OneLoopOneKeepalive ==
    (kind = "session" /\ Reconnected) =>
        /\ Cardinality(ReceiveLoops) = 1
        /\ Cardinality(Keepalives) <= 1

\* C9: close() on a market stream that holds no active transport returns
\* without raising, the first time and every later time.
C9_CloseWithoutTransport ==
    (lastCall.op = "close" /\ kind = "market" /\ ~lastCall.active) =>
        lastCall.exc = "none"

\* C10: no start() is ended by an exception of the network: neither by
\* ws_connect failing nor by what the loop does on a closed/close/error frame.
C10_NetworkFailureNotRaised ==
    \A t \in StartTasks :
        tasks[t].pc = "raised" => tasks[t].where \notin {"ws_connect", "ensure_future"}

\* the sink's entries for transport s, in call order
SinkOf(s) == SelectSeq(sink, LAMBDA e : e.ws = s)
\* the sink's entries for frame n of transport s, in call order
SinkOfFrame(s, n) == SelectSeq(sink, LAMBDA e : e.ws = s /\ e.n = n)

\* a market frame whose wrapper has a `stream` and a `data` key
Routable(frame) ==
    /\ IsText(frame)
    /\ Contains(frame.data.json, "stream")
    /\ Contains(frame.data.json, "data")

\* a market frame whose decoded document has no `stream` key
Unroutable(frame) ==
    /\ IsText(frame)
    /\ frame.data.json.ty = "dict"
    /\ "stream" \notin DOMAIN frame.data.json.kv

\* the documents a frame carries to the sink, in the order it carries them
Carried(frame) ==
    IF ~IsText(frame) THEN <<>>
    ELSE IF kind = "session" THEN <<frame.data.json>>
    ELSE IF ~Routable(frame) THEN <<>>
    ELSE LET data == frame.data.json.kv["data"]
         IN  IF data.ty = "list" THEN data.items ELSE <<data>>

RECURSIVE CarriedBy(_)
CarriedBy(frames) ==
    IF frames = <<>> THEN <<>> ELSE Carried(Head(frames)) \o CarriedBy(Tail(frames))

\* the sink got document `arrived`: as it is from a session stream, with its
\* own keys kept (the topic label aside) from a market stream
SameEvent(got, arrived) ==
    IF kind = "session" THEN got = arrived
    ELSE \A k \in DOMAIN arrived.kv \ {"stream"} : k \in DOMAIN got.kv /\ got.kv[k] = arrived.kv[k]

LoopsOn(s) == {t \in StartTasks : tasks[t].ws = s /\ tasks[t].pc = "receive"}

\* C3: on every transport the sink has, at every moment, exactly the documents
\* of the frames received so far on it, in arrival order (frame by frame, and
\* element by element inside a batch): nothing of a frame is dispatched after a
\* later frame was received, nothing is reordered.
C3_DispatchInArrivalOrder ==
    \A s \in DOMAIN received :
        LET got == SinkOf(s)
            arrived == CarriedBy(received[s])
        IN  /\ Len(got) = Len(arrived)
            /\ \A j \in 1..Len(got) : SameEvent(got[j].doc, arrived[j])
            /\ \A j \in 1..(Len(got) - 1) : got[j].n <= got[j + 1].n

\* C3 witness: a single document, then a batch, received on one transport and
\* all dispatched
C3_Witness ==
    \E s \in DOMAIN received :
        /\ Len(received[s]) >= 2
        /\ Len(Carried(received[s][1])) = 1
        /\ Len(Carried(received[s][2])) >= 2
        /\ Len(SinkOf(s)) >= 3

\* `got` is `doc` with the key `stream` set to `name`
Tagged(got, doc, name) ==
    /\ DOMAIN got.kv = DOMAIN doc.kv \cup {"stream"}
    /\ got.kv["stream"] = name
    /\ \A k \in DOMAIN doc.kv \ {"stream"} : got.kv[k] = doc.kv[k]

\* C4: for a market wrapper with a `stream` and a `data` key, the sink is
\* invoked once with the tagged document when `data` is one document, and k
\* times, in sequence order, each element tagged, when `data` is a list of k.
C4_DemultiplexByTopic ==
    kind = "market" =>
        \A s \in DOMAIN received : \A n \in 1..Len(received[s]) :
            Routable(received[s][n]) =>
                LET name == received[s][n].data.json.kv["stream"]
                    data == received[s][n].data.json.kv["data"]
                    got == SinkOfFrame(s, n)
                IN  IF data.ty = "list"
                    THEN /\ Len(got) = Len(data.items)
                         /\ \A i \in 1..Len(got) : Tagged(got[i].doc, data.items[i], name)
                    ELSE /\ Len(got) = 1
                         /\ Tagged(got[1].doc, data, name)

\* C4 witness: a batch of two different documents was handled
C4_Witness ==
    /\ kind = "market"
    /\ \E s \in DOMAIN received : \E n \in 1..Len(received[s]) :
        /\ Routable(received[s][n])
        /\ received[s][n].data.json.kv["data"].ty = "list"
        /\ Len(received[s][n].data.json.kv["data"].items) = 2
        /\ received[s][n].data.json.kv["data"].items[1]
               # received[s][n].data.json.kv["data"].items[2]
        /\ Len(SinkOfFrame(s, n)) = 2

\* C5: a market frame with no `stream` key reaches the sink zero times, and
\* the loop that received it is still waiting for the next frame of the
\* transport.
C5_UnroutableDropped ==
    kind = "market" =>
        \A s \in DOMAIN received : \A n \in 1..Len(received[s]) :
            Unroutable(received[s][n]) =>
                /\ SinkOfFrame(s, n) = <<>>
                /\ n = Len(received[s]) => LoopsOn(s) # {}

\* C5 witness: the frame after an unroutable one was received and dispatched
C5_Witness ==
    /\ kind = "market"
    /\ \E s \in DOMAIN received :
        /\ Len(received[s]) >= 2
        /\ Unroutable(received[s][1])
        /\ SinkOfFrame(s, 2) # <<>>

\* the start() tasks that create_listen_key ended
KeyFailed == {t \in StartTasks : tasks[t].pc = "raised" /\ tasks[t].where = "create_listen_key"}

\* C11: the step in which the token provider fails ends the session stream's
\* start() with the provider's exception, and changes nothing else: no
\* transport is opened, no keepalive task and no receive loop are added, the
\* transport handle is what it was, and no new start() is scheduled.
C11_TokenFailurePropagates ==
    [][\A t \in DOMAIN tasks :
          (tasks[t].pc = "create_listen_key" /\ tasks'[t].pc = "raised")
              => /\ tasks'[t].exc = "BinanceError"
                 /\ tasks'[t].ws = 0
                 /\ Len(tasks') = Len(tasks)
                 /\ \A u \in DOMAIN tasks \ {t} : tasks'[u] = tasks[u]
                 /\ socks' = socks
                 /\ received' = received
                 /\ web_socket' = web_socket]_vars

C11_Witness ==
    /\ kind = "session"
    /\ KeyFailed # {}
    /\ \A t \in KeyFailed : tasks[t].exc = "BinanceError"

\* the start() that opened transport s
OpenerOf(s) == CHOOSE t \in StartTasks : tasks[t].ws = s

\* C12: every transport is opened through the proxy exactly when the client
\* has one configured, a market stream's and a session stream's alike, and a
\* session stream's is opened against /ws/<the listen key its start() was
\* just given>.
C12_OpensWithTokenAndProxy ==
    \A s \in DOMAIN socks :
        /\ socks[s].args.proxy = proxy
        /\ kind = "session" =>
              /\ socks[s].args.path = "/ws/"
              /\ socks[s].args.arg = tasks[OpenerOf(s)].key
              /\ tasks[OpenerOf(s)].key # 0

\* C13: the step in which close() is called on a market stream whose current
\* transport is open leaves that transport closed, and leaves every task
\* (a scheduled start() among them) as it was.
C13_CloseClosesTransport ==
    [][(/\ kind = "market"
        /\ ActiveTransport
        /\ lastCall.op # "close"
        /\ lastCall'.op = "close")
          => /\ ~socks'[web_socket].live
             /\ tasks' = tasks]_vars

\* the transports of the stream that are open
OpenTransports == {s \in DOMAIN socks : socks[s].live}

\* C14: a stream has at most one open transport.
C14_AtMostOneTransport == Cardinality(OpenTransports) <= 1

\* C15: the liveness timestamp never decreases.
C15_TimestampNeverDecreases == [][last_msg_time' >= last_msg_time]_vars

\* the listen key of the current epoch: the one in the URL of the transport
\* self.web_socket holds
EpochKey == IF web_socket = Unset THEN 0 ELSE socks[web_socket].args.arg

\* C16: a keepalive task that is renewing renews the current epoch's listen key.
C16_RenewsCurrentToken ==
    \A t \in DOMAIN tasks :
        (tasks[t].kind = "heartbeat" /\ tasks[t].pc = "keep_alive")
            => tasks[t].key = EpochKey

\* the transports on which a closed/close/error frame was received
ClosedEpochs == {s \in DOMAIN received : \E n \in DOMAIN received[s] : IsClosing(received[s][n])}

C18_ClosingFrameDoesNotCrash ==
    \A t \in StartTasks :
        LET ws == tasks[t].ws
        IN  (/\ ws # 0
             /\ received[ws] # <<>>
             /\ IsClosing(received[ws][Len(received[ws])]))
                => tasks[t].pc # "raised"

\* a start() that runs a receive loop on an open transport, or is on its way
\* to one
Recovering ==
    \E t \in StartTasks :
        \/ tasks[t].pc \in {"create_listen_key", "ws_connect"}
        \/ tasks[t].pc = "receive" /\ socks[tasks[t].ws].live

\* C19: a stream that was connected and not closed is never left with no
\* receive loop on an open transport and no start() on its way to one (the
\* state from which, the caller aside, no receive loop can ever run again).
C19_NeverTerminallyDisconnected ==
    (socks # <<>> /\ lastCall.op # "close") => Recovering

\* C20: connected() on a market stream with a topic registered, and on a
\* session stream, returns True or False and raises nothing, whenever called.
C20_ConnectedAlwaysDefined ==
    (lastCall.op = "connected" /\ (kind = "session" \/ topics >= 1))
        => /\ lastCall.exc = "none"
           /\ lastCall.ret \in {"True", "False"}

====
